---------------------------- MODULE Spec2Model ----------------------------
(***************************************************************************)
(* Chat-to-visualization app: the answer sanitizer and JSON extractor of   *)
(* server/llm.js, the question/answer endpoints of server/index.js and the *)
(* canvas playback loop of client/src/App.tsx.                             *)
(*                                                                         *)
(* JavaScript values are carried as tagged records (k is the tag), so that *)
(* a value of any shape can stand where the code expects an object.  An    *)
(* exception is the value Throw, which every operation passes on.          *)
(***************************************************************************)
EXTENDS Integers, Sequences, FiniteSets, TLC

VARIABLES
    ans,        \* sanitizer run: the value handed to sanitizeAnswer
    out,        \* sanitizer run: sanitizeAnswer(ans), NotYet before the call
    out2,       \* sanitizer run: sanitizeAnswer(out), NotYet before the call
    drawnAt,    \* sanitizer run: the time of the evaluated frame, -1 before
    frame,      \* sanitizer run: what draw painted for out.visualization
    currentVis, \* App state: the visualization shown, with the serial of its answer
    isPlaying,  \* App state
    updates,    \* state updates set by handlers and not yet rendered
    mounted,    \* whether VisualizationCanvas is mounted
    hasCleanup, \* whether the last run of the layout effect returned its cleanup
    nLoops,     \* how many runs of the layout effect started a loop
    raf,        \* the browser's pending animation frame callbacks, each with
                \* its id and the closure of the effect run that made it
    rafRef,     \* rafRef.current, 0 for null
    clock,      \* performance.now(), in ms
    canvas,     \* the last frame drawn: by which loop, for which answer, of
                \* which spec and duration, at which t
    mode,       \* server: process.env.LLM_MODE, undefined when unset
    questions,  \* server: the questions array
    answers,    \* server: the answers array
    events,     \* server: the calls of broadcast, in order
    reqs,       \* server: the POST /api/questions requests and where each stands
    dateNow,    \* server: Date.now()
    rawText,    \* extraction: the text of the model's response, as its pieces
    extracted,  \* extraction: what askOllama's tolerant parsing made of rawText
    cQuestions, \* App state: questions, the list displayed
    cAnswers,   \* App state: answers, by id
    load,       \* App: where the GET /api/questions of the mount effect stands
    sse         \* App: the EventSource, and how many broadcasts it has handled

sanVars == <<ans, out, out2, drawnAt, frame>>

playVars ==
    <<currentVis, isPlaying, updates, mounted, hasCleanup, nLoops, raf, rafRef, clock,
      canvas>>

srvVars == <<mode, questions, answers, events, reqs, dateNow>>

extVars == <<rawText, extracted>>

cliVars == <<cQuestions, cAnswers, load, sse>>

vars == <<sanVars, playVars, srvVars, extVars, cliVars>>

----------------------------------------------------------------------------
(* JavaScript values *)

Undef == [k |-> "undef"]
Null == [k |-> "null"]
Throw == [k |-> "throw"]
NotYet == [k |-> "notyet"]
Bool(b) == [k |-> "bool", b |-> b]
Num(n) == [k |-> "num", n |-> n]
\* the number n + 1/2, a number that is no integer
Half(n) == [k |-> "num", n |-> n, half |-> TRUE]
isHalf(v) == "half" \in DOMAIN v
Str(s) == [k |-> "str", s |-> s]
Arr(a) == [k |-> "arr", a |-> a]
Obj(f) == [k |-> "obj", f |-> f]
EmptyObj == Obj(<<>>)

\* an object literal: evaluating a field that throws makes the literal throw
MkObj(f) == IF \E key \in DOMAIN f : f[key] = Throw THEN Throw ELSE Obj(f)

\* v.key
Get(v, key) ==
    IF v.k \in {"undef", "null", "throw"} THEN Throw
    ELSE IF v.k = "obj" /\ key \in DOMAIN v.f THEN v.f[key]
    ELSE Undef

\* v?.key
OptGet(v, key) ==
    IF v.k = "throw" THEN Throw
    ELSE IF v.k \in {"undef", "null"} THEN Undef
    ELSE Get(v, key)

\* Boolean(v)
Truthy(v) ==
    CASE v.k \in {"undef", "null"} -> FALSE
      [] v.k = "bool" -> v.b
      [] v.k = "num" -> v.n # 0 \/ isHalf(v)
      [] v.k = "str" -> v.s # ""
      [] OTHER -> TRUE

\* a || b
Or(a, b) == IF a = Throw THEN Throw ELSE IF Truthy(a) THEN a ELSE b

\* a ?? b
Nullish(a, b) == IF a = Throw THEN Throw ELSE IF a.k \in {"undef", "null"} THEN b ELSE a

\* String.prototype.trim, on the strings the inputs are drawn from
Trim(s) ==
    CASE s = " ok " -> "ok"
      [] s = "   " -> ""
      [] OTHER -> s

NaN == [finite |-> FALSE, n |-> 0, half |-> FALSE]
Finite(n) == [finite |-> TRUE, n |-> n, half |-> FALSE]

\* Number(s) for a string, on the strings the inputs are drawn from
StrToNum(s) ==
    CASE Trim(s) = "" -> Finite(0)
      [] s = "7" -> Finite(7)
      [] s = "2000" -> Finite(2000)
      [] OTHER -> NaN

\* Number(v): undefined and objects give NaN, null 0, an array goes through
\* its string form ("" when empty, the element's when it has one element)
RECURSIVE ToNumber(_)
ToNumber(v) ==
    CASE v.k = "num" -> [finite |-> TRUE, n |-> v.n, half |-> isHalf(v)]
      [] v.k = "null" -> Finite(0)
      [] v.k = "bool" -> Finite(IF v.b THEN 1 ELSE 0)
      [] v.k = "str" -> StrToNum(v.s)
      [] v.k = "arr" ->
            IF Len(v.a) = 0 THEN Finite(0)
            ELSE IF Len(v.a) > 1 THEN NaN
            ELSE IF v.a[1].k \in {"undef", "null"} THEN Finite(0)
            ELSE IF v.a[1].k \in {"num", "str", "arr"} THEN ToNumber(v.a[1])
            ELSE NaN
      [] OTHER -> NaN

Min(a, b) == IF a < b THEN a ELSE b
Max(a, b) == IF a > b THEN a ELSE b

----------------------------------------------------------------------------
(* server/llm.js: helpers *)

safeNumber(n, def) ==
    IF n = Throw THEN Throw
    ELSE LET x == ToNumber(n)
         IN  IF ~x.finite THEN def ELSE IF x.half THEN Half(x.n) ELSE Num(x.n)

\* clamp without its upper bound: Math.max(min, n)
clampNoUpper(n, min, max) ==
    IF n = Throw THEN Throw
    ELSE IF isHalf(n) THEN (IF n.n < min THEN Num(min) ELSE n)
    ELSE Num(Max(min, n.n))

\* Math.max(min, Math.min(max, n)), min and max integers: n + 1/2 is above max
\* when n >= max and below min when n < min
clamp(n, min, max) ==
    IF n = Throw THEN Throw
    ELSE IF isHalf(n) THEN
        IF n.n >= max THEN Num(Max(min, max)) ELSE IF n.n < min THEN Num(min) ELSE n
    ELSE Num(Max(min, Min(max, n.n)))

DefaultText == "Here's a concise explanation with a simple visualization."

layerName(i) == "layer_" \o ToString(i)

\* the callback of l.animations.map
sanitizeAnimation(a, duration) ==
    IF OptGet(a, "property") = Str("orbit") THEN
        MkObj([property |-> Str("orbit"),
               centerX |-> clamp(safeNumber(Get(a, "centerX"), Num(320)), 0, 640),
               centerY |-> clamp(safeNumber(Get(a, "centerY"), Num(200)), 0, 400),
               radius |-> clamp(safeNumber(Get(a, "radius"), Num(100)), 10, 250),
               duration |-> clamp(safeNumber(Get(a, "duration"), duration), 500, 10000)])
    ELSE
        LET start == clamp(safeNumber(OptGet(a, "start"), Num(0)), 0, duration.n - 100)
            end == clamp(safeNumber(OptGet(a, "end"), duration), start.n + 100, duration.n)
            prop == OptGet(a, "property")
        IN  MkObj([property |-> IF prop = Str("y") THEN Str("y")
                                ELSE IF prop = Str("r") THEN Str("r") ELSE Str("x"),
                   from |-> safeNumber(OptGet(a, "from"), Num(100)),
                   to |-> safeNumber(OptGet(a, "to"), Num(500)),
                   start |-> start,
                   end |-> end])

\* the array array.map returns, r its callback's results: a callback that
\* throws makes map throw
MapArr(r) == IF \E i \in 1..Len(r) : r[i] = Throw THEN Throw ELSE Arr(r)

sanitizeAnimations(l, duration) ==
    LET as == Get(l, "animations")
    IN  IF as = Throw THEN Throw
        ELSE IF as.k = "arr"
            THEN MapArr([i \in 1..Len(as.a) |-> sanitizeAnimation(as.a[i], duration)])
        ELSE Arr(<<>>)

\* typeof v === "string" ? v : def
StringOr(v, def) == IF v = Throw THEN Throw ELSE IF v.k = "str" THEN v ELSE Str(def)

\* l.type, read without the guard of l?.type
layerTypeUnguarded(l) == Get(l, "type")

\* const type = l?.type
layerType(l) == OptGet(l, "type")

\* the callback of layers.map
sanitizeLayer(l, i, duration) ==
    LET id == Or(OptGet(l, "id"), Str(layerName(i)))
        type == layerType(l)
        p == Or(Get(l, "props"), EmptyObj)
    IN  IF type = Throw THEN Throw
        ELSE IF type = Str("circle") THEN
            MkObj([id |-> id, type |-> type,
                   props |-> MkObj([x |-> clamp(safeNumber(Get(p, "x"), Num(160)), 0, 640),
                                    y |-> clamp(safeNumber(Get(p, "y"), Num(200)), 0, 400),
                                    r |-> clamp(safeNumber(Get(p, "r"), Num(16)), 1, 120),
                                    fill |-> StringOr(Get(p, "fill"), "#3498db")]),
                   animations |-> sanitizeAnimations(l, duration)])
        ELSE IF type = Str("arrow") THEN
            MkObj([id |-> id, type |-> type,
                   props |-> MkObj([x |-> clamp(safeNumber(Get(p, "x"), Num(90)), 0, 640),
                                    y |-> clamp(safeNumber(Get(p, "y"), Num(220)), 0, 400),
                                    dx |-> clamp(safeNumber(Get(p, "dx"), Num(40)), -640, 640),
                                    dy |-> clamp(safeNumber(Get(p, "dy"), Num(0)), -400, 400),
                                    color |-> StringOr(Get(p, "color"), "#e74c3c")]),
                   animations |-> Arr(<<>>)])
        ELSE IF type = Str("lottie") THEN
            MkObj([id |-> id, type |-> type,
                   props |-> MkObj([url |-> StringOr(Get(p, "url"), "/animations/dna.json"),
                                    x |-> clamp(safeNumber(Get(p, "x"), Num(430)), 0, 640),
                                    y |-> clamp(safeNumber(Get(p, "y"), Num(140)), 0, 400),
                                    width |-> clamp(safeNumber(Get(p, "width"), Num(180)), 40, 640),
                                    height |-> clamp(safeNumber(Get(p, "height"), Num(180)), 40, 400),
                                    loop |-> LET b == Nullish(Get(p, "loop"), Bool(TRUE))
                                             IN  IF b = Throw THEN Throw ELSE Bool(Truthy(b))]),
                   animations |-> Arr(<<>>)])
        ELSE Null

\* no scene installed when no layer survives
noDefaultLayers(duration) == <<>>

\* the scene installed when no layer survives
defaultLayers(duration) ==
    <<Obj([id |-> Str("ball"), type |-> Str("circle"),
           props |-> Obj([x |-> Num(120), y |-> Num(220), r |-> Num(18),
                          fill |-> Str("#3498db")]),
           animations |-> Arr(<<Obj([property |-> Str("x"), from |-> Num(120),
                                     to |-> Num(520), start |-> Num(0),
                                     end |-> Num(duration.n - 1000)])>>)]),
      Obj([id |-> Str("arrow"), type |-> Str("arrow"),
           props |-> Obj([x |-> Num(90), y |-> Num(220), dx |-> Num(40), dy |-> Num(0),
                          color |-> Str("#e74c3c")]),
           animations |-> Arr(<<>>)])>>

sanitizeAnswer(a) ==
    LET t == OptGet(a, "text")
        text == IF t.k = "str" /\ Trim(t.s) # "" THEN Str(Trim(t.s)) ELSE Str(DefaultText)
        vis == Or(OptGet(a, "visualization"), EmptyObj)
        duration == clamp(safeNumber(Get(vis, "duration"), Num(5000)), 1000, 10000)
        fps == clamp(safeNumber(Get(vis, "fps"), Num(30)), 1, 60)
        ls == Get(vis, "layers")
        layers0 == IF ls.k = "arr" THEN ls.a ELSE <<>>
        mapped == MapArr([i \in 1..Len(layers0) |-> sanitizeLayer(layers0[i], i - 1, duration)])
    IN  IF mapped = Throw THEN Throw
        ELSE LET kept == SelectSeq(mapped.a, Truthy)
                 layers == IF Len(kept) = 0 THEN defaultLayers(duration) ELSE kept
             IN  MkObj([text |-> text,
                        visualization |->
                            MkObj([id |-> Or(Get(vis, "id"), Str("vis_safe")),
                                   duration |-> duration,
                                   fps |-> fps,
                                   layers |-> Arr(layers)])])

\* (question || "").toLowerCase().includes(word), on the questions asked
Mentions(question, word) ==
    CASE word = "solar" -> question = "Explain the Solar System"
      [] word = "newton" -> question = "Explain Newton's First Law"
      [] word = "dna" -> question = "What is DNA?"
      [] OTHER -> FALSE

\* `${question}` for the values a question can have
templateOf(question) ==
    CASE question.k = "str" -> question.s
      [] question.k = "num" -> ToString(question.n)
      [] question.k = "undef" -> "undefined"
      [] question.k = "bool" -> IF question.b THEN "true" ELSE "false"
      [] OTHER -> question.k

\* the four answers of mockAnswer, by the word the question mentions
mockAnswerFor(q, question) ==
    IF Mentions(q, "solar") THEN
        Obj([text |-> Str("The Sun is at the center; planets orbit due to gravity."),
             visualization |-> Obj([id |-> Str("vis_solar"), duration |-> Num(6000),
                fps |-> Num(30),
                layers |-> Arr(<<
                    Obj([id |-> Str("sun"), type |-> Str("circle"),
                         props |-> Obj([x |-> Num(320), y |-> Num(200), r |-> Num(40),
                                        fill |-> Str("#f39c12")]),
                         animations |-> Arr(<<>>)]),
                    Obj([id |-> Str("earth"), type |-> Str("circle"),
                         props |-> Obj([x |-> Num(220), y |-> Num(200), r |-> Num(12),
                                        fill |-> Str("#3498db")]),
                         animations |-> Arr(<<Obj([property |-> Str("orbit"),
                                                   centerX |-> Num(320), centerY |-> Num(200),
                                                   radius |-> Num(100),
                                                   duration |-> Num(6000)])>>)])>>)])])
    ELSE IF Mentions(q, "newton") THEN
        Obj([text |-> Str("An object remains at rest or moves uniformly unless acted on by a net external force."),
             visualization |-> Obj([id |-> Str("vis_newton"), duration |-> Num(4500),
                fps |-> Num(30),
                layers |-> Arr(<<
                    Obj([id |-> Str("ball"), type |-> Str("circle"),
                         props |-> Obj([x |-> Num(120), y |-> Num(220), r |-> Num(18),
                                        fill |-> Str("#3498db")]),
                         animations |-> Arr(<<Obj([property |-> Str("x"), from |-> Num(120),
                                                   to |-> Num(520), start |-> Num(0),
                                                   end |-> Num(3500)])>>)]),
                    Obj([id |-> Str("arrow"), type |-> Str("arrow"),
                         props |-> Obj([x |-> Num(90), y |-> Num(220), dx |-> Num(40),
                                        dy |-> Num(0), color |-> Str("#e74c3c")]),
                         animations |-> Arr(<<>>)])>>)])])
    ELSE IF Mentions(q, "dna") THEN
        Obj([text |-> Str("DNA stores genetic information using sequences of A, T, C, and G bases."),
             visualization |-> Obj([id |-> Str("vis_dna"), duration |-> Num(5000),
                fps |-> Num(30),
                layers |-> Arr(<<
                    Obj([id |-> Str("dnaAnim"), type |-> Str("lottie"),
                         props |-> Obj([url |-> Str("/animations/dna.json"), x |-> Num(430),
                                        y |-> Num(140), width |-> Num(180),
                                        height |-> Num(180), loop |-> Bool(TRUE)]),
                         animations |-> Arr(<<>>)]),
                    Obj([id |-> Str("dot"), type |-> Str("circle"),
                         props |-> Obj([x |-> Num(120), y |-> Num(220), r |-> Num(14),
                                        fill |-> Str("#2ecc71")]),
                         animations |-> Arr(<<Obj([property |-> Str("x"), from |-> Num(120),
                                                   to |-> Num(360), start |-> Num(400),
                                                   end |-> Num(2800)])>>)])>>)])])
    ELSE
        Obj([text |-> Str("Here's a clear explanation of \"" \o templateOf(question) \o "\"."),
             visualization |-> Obj([id |-> Str("vis_generic"), duration |-> Num(5000),
                fps |-> Num(30),
                layers |-> Arr(<<
                    Obj([id |-> Str("ball"), type |-> Str("circle"),
                         props |-> Obj([x |-> Num(160), y |-> Num(220), r |-> Num(16),
                                        fill |-> Str("#3498db")]),
                         animations |-> Arr(<<Obj([property |-> Str("x"), from |-> Num(160),
                                                   to |-> Num(480), start |-> Num(300),
                                                   end |-> Num(3200)])>>)]),
                    Obj([id |-> Str("arrow"), type |-> Str("arrow"),
                         props |-> Obj([x |-> Num(200), y |-> Num(220), dx |-> Num(200),
                                        dy |-> Num(0), color |-> Str("#e74c3c")]),
                         animations |-> Arr(<<>>)])>>)])])

\* const q = (question || "").toLowerCase(): a truthy question that is no
\* string has no toLowerCase, and the call throws
mockAnswer(question) ==
    IF Truthy(question) /\ question.k # "str" THEN Throw
    ELSE mockAnswerFor(IF Truthy(question) THEN question.s ELSE "", question)

----------------------------------------------------------------------------
(* client/src/App.tsx: what draw paints at animation time t *)

\* a painted coordinate: n/d + radius * fn(2 pi * pn/pd), fn "cos", "sin" or "none"
Plain(n) == [n |-> n, d |-> 1, radius |-> 0, pn |-> 0, pd |-> 1, fn |-> "none"]

\* one pass of the loop over a circle's animations
applyAnimation(st, a, t, dur) ==
    IF Get(a, "property") = Str("orbit") THEN
        LET od == Get(a, "duration")
            orbitDur == IF Truthy(od) THEN od.n ELSE dur
            cx == Get(a, "centerX").n
            cy == Get(a, "centerY").n
            rad == Get(a, "radius").n
        IN  [st EXCEPT
                !.x = [n |-> cx, d |-> 1, radius |-> rad, pn |-> t % orbitDur,
                       pd |-> orbitDur, fn |-> "cos"],
                !.y = [n |-> cy, d |-> 1, radius |-> rad, pn |-> t % orbitDur,
                       pd |-> orbitDur, fn |-> "sin"]]
    ELSE
        LET start == Nullish(Get(a, "start"), Num(0)).n
            end == Nullish(Get(a, "end"), Num(dur)).n
            span == Max(end - start, 1)
            \* prog = progN / span
            progN == Min(Max(t - start, 0), span)
            from == Get(a, "from").n
            to == Get(a, "to").n
            val == [Plain(from * span + (to - from) * progN) EXCEPT !.d = span]
            prop == Get(a, "property")
        IN  [st EXCEPT !.x = IF prop = Str("x") THEN val ELSE @,
                       !.y = IF prop = Str("y") THEN val ELSE @,
                       !.r = IF prop = Str("r") THEN val ELSE @]

\* the animations applied last to first, so that the first one wins
RECURSIVE applyFirstWins(_, _, _, _)
applyFirstWins(st, anims, t, dur) ==
    IF Len(anims) = 0 THEN st
    ELSE applyAnimation(applyFirstWins(st, Tail(anims), t, dur), Head(anims), t, dur)

RECURSIVE applyAnimations(_, _, _, _)
applyAnimations(st, anims, t, dur) ==
    IF Len(anims) = 0 THEN st
    ELSE applyAnimations(applyAnimation(st, Head(anims), t, dur), Tail(anims), t, dur)

\* the callback of spec.layers.forEach: the shapes painted for one layer;
\* layer is the index of the layer painted, kept to tell the shapes apart
drawLayer(layer, i, t, dur) ==
    LET type == Get(layer, "type")
        p == Get(layer, "props")
    IN  IF type = Str("circle") THEN
            LET as == Nullish(Get(layer, "animations"), Arr(<<>>))
                st == applyAnimations([x |-> Plain(Get(p, "x").n), y |-> Plain(Get(p, "y").n),
                                       r |-> Plain(Get(p, "r").n)], as.a, t, dur)
            IN  <<[shape |-> "circle", layer |-> i, x |-> st.x, y |-> st.y, r |-> st.r,
                   fill |-> Or(Get(p, "fill"), Str("#3498db"))]>>
        ELSE IF type = Str("arrow") THEN
            <<[shape |-> "arrow", layer |-> i, x |-> Get(p, "x"), y |-> Get(p, "y"),
               dx |-> Get(p, "dx"), dy |-> Get(p, "dy"),
               color |-> Or(Get(p, "color"), Str("#e74c3c"))]>>
        ELSE <<>>

RECURSIVE drawLayers(_, _, _, _)
drawLayers(layers, i, t, dur) ==
    IF i > Len(layers) THEN <<>>
    ELSE drawLayer(layers[i], i - 1, t, dur) \o drawLayers(layers, i + 1, t, dur)

\* spec.duration || 4000
specDuration(spec) == LET d == Get(spec, "duration") IN IF Truthy(d) THEN d.n ELSE 4000

\* the body of draw once t is known
paint(spec, t) ==
    LET ls == Nullish(Get(spec, "layers"), Arr(<<>>))
    IN  drawLayers(ls.a, 1, t, specDuration(spec))

----------------------------------------------------------------------------
(* The values sanitizeAnswer is run on *)

MaxLayers == 2

SeqsUpTo(S, n) == UNION {[1..m -> S] : m \in 0..n}

\* an object with the fields of rec that are not undefined
ObjOf(rec) == Obj([key \in {z \in DOMAIN rec : rec[z] # Undef} |-> rec[key]])

OrbitPlain == Obj([property |-> Str("orbit")])
OrbitWild ==
    Obj([property |-> Str("orbit"), centerX |-> Num(9999), centerY |-> Num(-5),
         radius |-> Num(5), duration |-> Num(100)])
LinearShort ==
    Obj([property |-> Str("y"), from |-> Num(0), to |-> Num(50), start |-> Num(500),
         end |-> Num(550)])
LinearWild ==
    Obj([property |-> Str("r"), from |-> Str("7"), to |-> Null, start |-> Num(99999),
         end |-> Num(-1)])
LinearOdd ==
    Obj([property |-> Str("z"), from |-> Str("abc"), start |-> Str("2000"),
         end |-> Arr(<<>>)])

LinearPlain ==
    Obj([property |-> Str("x"), from |-> Num(100), to |-> Num(500), start |-> Num(0),
         end |-> Num(1000)])
OrbitLong ==
    Obj([property |-> Str("orbit"), centerX |-> Num(320), centerY |-> Num(200),
         radius |-> Num(100), duration |-> Num(4000)])

LayerInputs ==
    { Null, EmptyObj,
      Obj([type |-> Str("circle"), id |-> Str("mover"), animations |-> Arr(<<LinearPlain>>)]),
      Obj([type |-> Str("circle"), id |-> Str("moon"), animations |-> Arr(<<OrbitLong>>)]),
      Obj([type |-> Str("bogus"), id |-> Str("a")]),
      Obj([type |-> Str("circle")]),
      Obj([type |-> Str("circle"), id |-> Str("a"),
           props |-> Obj([x |-> Num(9999), y |-> Num(-3), r |-> Num(-5),
                          fill |-> Str("red")])]),
      Obj([type |-> Str("circle"), id |-> Num(7), props |-> Null,
           animations |-> Str("x")]),
      Obj([type |-> Str("circle"), id |-> Str(""),
           props |-> Obj([x |-> Str("7"), y |-> Null, r |-> Str("abc"), fill |-> Num(1)]),
           animations |-> Null]),
      Obj([type |-> Str("circle"), id |-> Str("layer_1"),
           animations |-> Arr(<<Null, EmptyObj>>)]),
      Obj([type |-> Str("circle"), animations |-> Arr(<<OrbitPlain, LinearOdd, OrbitWild>>)]),
      Obj([type |-> Str("circle"), id |-> Str("a"),
           animations |-> Arr(<<LinearShort, LinearWild>>)]),
      Obj([type |-> Str("arrow")]),
      Obj([type |-> Str("arrow"), id |-> Str("a"),
           props |-> Obj([x |-> Num(-1), y |-> Num(401), dx |-> Num(9999),
                          dy |-> Num(-9999), color |-> Num(3)])]),
      Obj([type |-> Str("lottie"), props |-> Num(5)]),
      Obj([type |-> Str("lottie"), id |-> Str("layer_1"),
           props |-> Obj([url |-> Num(1), width |-> Num(1), height |-> Num(9999),
                          loop |-> Num(0)])]) }

LayersInputs ==
    {Undef, Null, Str("x"), EmptyObj} \cup {Arr(s) : s \in SeqsUpTo(LayerInputs, MaxLayers)}

DurationInputs ==
    {Undef, Num(1000), Num(1050), Num(1100), Num(20000), Str("2000")}

VisInputs ==
    {Null, Num(1), Str("x"), Arr(<<>>), EmptyObj}
    \cup {ObjOf([duration |-> d, layers |-> ls]) : d \in DurationInputs, ls \in LayersInputs}
    \cup {ObjOf([id |-> i, fps |-> f]) :
            i \in {Undef, Num(0), Num(5), Str("vis_1")},
            f \in {Null, Num(0), Num(24), Half(24), Half(60), Num(999), Str("7"), Str("abc")}}

AnsInputs ==
    {Undef, Null, Num(5), Str("text"), Arr(<<>>), EmptyObj}
    \cup {ObjOf([text |-> t]) : t \in {Null, Num(1), Str(""), Str("   "), Str(" ok ")}}
    \cup {ObjOf([text |-> Str("ok"), visualization |-> v]) : v \in VisInputs}

\* the times a frame is evaluated at, some past every duration
SampleTimes == {0, 500, 4000, 20000}

\* the sanitizer run before anything was sanitized
SanIdle ==
    /\ out = NotYet
    /\ out2 = NotYet
    /\ drawnAt = -1
    /\ frame = <<>>

\* the App as mounted: nothing shown, isPlaying true, no loop started
PlayIdle ==
    /\ currentVis = [serial |-> 0, spec |-> Null]
    /\ isPlaying = TRUE
    /\ updates = <<>>
    /\ mounted = TRUE
    /\ hasCleanup = FALSE
    /\ nLoops = 0
    /\ raf = {}
    /\ rafRef = 0
    /\ clock = 1000
    /\ canvas = [loop |-> 0, serial |-> 0, spec |-> Null, t |-> 0, dur |-> 0]

MaxRequests == 2

None == [k |-> "none"]

\* a request not yet received
IdleReq ==
    [pc |-> "idle", question |-> Undef, userId |-> Undef, questionId |-> "", qIndex |-> 0,
     io |-> None, status |-> 0, calls |-> <<>>]

\* the server as started: nothing stored, nothing broadcast
SrvIdle ==
    /\ questions = <<>>
    /\ answers = <<>>
    /\ events = <<>>
    /\ reqs = [r \in 1..MaxRequests |-> IdleReq]
    /\ dateNow = 0

\* no response text handed to the extraction yet
ExtIdle ==
    /\ rawText = <<>>
    /\ extracted = NotYet

\* the App before its effects ran: useState([]) and useState({})
CliIdle ==
    /\ cQuestions = <<>>
    /\ cAnswers = [id \in {} |-> Null]
    /\ load = [pc |-> "idle", data |-> <<>>]
    /\ sse = [pc |-> "idle", read |-> 0]

SanInit ==
    /\ ans \in AnsInputs
    /\ SanIdle
    /\ PlayIdle
    /\ mode = Undef
    /\ SrvIdle
    /\ ExtIdle
    /\ CliIdle

\* callLLMService: sanitizeAnswer(res)
Sanitize ==
    /\ out = NotYet
    /\ out' = sanitizeAnswer(ans)
    /\ UNCHANGED <<ans, out2, drawnAt, frame, playVars, srvVars, extVars, cliVars>>

\* the sanitized answer handed to sanitizeAnswer again
Resanitize ==
    /\ out \notin {NotYet, Throw}
    /\ out2 = NotYet
    /\ drawnAt = -1
    /\ out2' = sanitizeAnswer(out)
    /\ UNCHANGED <<ans, out, drawnAt, frame, playVars, srvVars, extVars, cliVars>>

\* draw at now - startTime = e for the sanitized visualization
Evaluate ==
    /\ out \notin {NotYet, Throw}
    /\ out2 = NotYet
    /\ drawnAt = -1
    /\ \E e \in SampleTimes :
        LET spec == Get(out, "visualization")
            t == Min(e, specDuration(spec))
        IN  /\ drawnAt' = t
            /\ frame' = paint(spec, t)
    /\ UNCHANGED <<ans, out, out2, playVars, srvVars, extVars, cliVars>>

SanNext == Sanitize \/ Resanitize \/ Evaluate

SpecSanitize == SanInit /\ [][SanNext]_vars

----------------------------------------------------------------------------
(* Properties of the sanitizer and of the evaluated frame *)

Sanitized == out \notin {NotYet, Throw}
OutVis == Get(out, "visualization")
OutLayers == Get(OutVis, "layers").a
OutDuration == Get(OutVis, "duration").n
AnimationsOf(layer) == Get(layer, "animations").a
InputLayers == OptGet(OptGet(ans, "visualization"), "layers")

LinearWindowOk(a, duration) ==
    Get(a, "property") # Str("orbit") =>
        /\ 0 <= Get(a, "start").n
        /\ Get(a, "start").n + 100 <= Get(a, "end").n
        /\ Get(a, "end").n <= duration

\* C1: every linear animation of the returned visualization, the default
\* scene's included, has 0 <= start and start + 100 <= end <= duration.
LinearWindowInv ==
    Sanitized =>
        \A i \in 1..Len(OutLayers) :
            \A j \in 1..Len(AnimationsOf(OutLayers[i])) :
                LinearWindowOk(AnimationsOf(OutLayers[i])[j], OutDuration)

\* C2: sanitizing a sanitized answer returns it unchanged, field for field.
SanitizeIdempotent == out2 # NotYet => out2 = out

LayerIdsDistinct ==
    Sanitized =>
        /\ \A i \in 1..Len(OutLayers) : Get(OutLayers[i], "id").k = "str"
        /\ \A i, j \in 1..Len(OutLayers) :
                i # j => Get(OutLayers[i], "id") # Get(OutLayers[j], "id")

\* what the frame must hold for the layer at index i (0-based) when no layer of
\* a recognized variant is skipped and static layers keep their props
PaintedAsGiven(shape, layer, i) ==
    /\ shape.layer = i
    /\ shape.shape = Get(layer, "type").s
    /\ shape.shape = "arrow" =>
            /\ shape.x = Get(Get(layer, "props"), "x")
            /\ shape.y = Get(Get(layer, "props"), "y")
            /\ shape.dx = Get(Get(layer, "props"), "dx")
            /\ shape.dy = Get(Get(layer, "props"), "dy")
            /\ shape.color = Get(Get(layer, "props"), "color")

\* C10: at every time the frame holds exactly one shape per layer of the
\* sanitized visualization, in the order of its layers, arrow and lottie
\* layers with their props unchanged.
OneShapePerLayer ==
    drawnAt >= 0 =>
        /\ Len(frame) = Len(OutLayers)
        /\ \A i \in 1..Len(OutLayers) :
                i <= Len(frame) => PaintedAsGiven(frame[i], OutLayers[i], i - 1)

----------------------------------------------------------------------------
(* client/src/App.tsx: the playback loop of VisualizationCanvas *)

MaxClock == 10000
MaxLoops == 2
MaxAnswers == 2
MaxQueued == 2

\* the time between two looks at the clock, and so between two frames
FrameSteps == {1000, 2000}
MaxStep == CHOOSE d \in FrameSteps : \A e \in FrameSteps : e <= d

\* the visualizations answer_created events carry: sanitized answers
PlayedSpecs ==
    { Get(sanitizeAnswer(Obj([visualization |-> Obj([duration |-> Num(d)])])),
          "visualization") : d \in {1000, 3000} }

NoVis == [serial |-> 0, spec |-> Null]

\* the serial of the next answer delivered
nextSerial ==
    1 + currentVis.serial
      + Cardinality({i \in 1..Len(updates) : updates[i].kind = "answer"})

\* the answer_created listener: setCurrentVis(a.visualization || null) and
\* setIsPlaying(true), rendered later
AnswerCreated ==
    /\ mounted
    /\ Len(updates) < MaxQueued
    /\ nextSerial <= MaxAnswers
    /\ \E spec \in PlayedSpecs :
        updates' = Append(updates,
                          [kind |-> "answer", vis |-> [serial |-> nextSerial, spec |-> spec]])
    /\ UNCHANGED <<currentVis, isPlaying, mounted, hasCleanup, nLoops, raf, rafRef, clock,
                   canvas, sanVars, srvVars, extVars, cliVars>>

\* the button's onClick: setIsPlaying((p) => !p)
TogglePlay ==
    /\ mounted
    /\ Len(updates) < MaxQueued
    /\ updates' = Append(updates, [kind |-> "toggle", vis |-> NoVis])
    /\ UNCHANGED <<currentVis, isPlaying, mounted, hasCleanup, nLoops, raf, rafRef, clock,
                   canvas, sanVars, srvVars, extVars, cliVars>>

\* one queued update applied to the state, an answer without setIsPlaying(true)
applyUpdateNoAutoPlay(st, u) ==
    IF u.kind = "toggle" THEN [st EXCEPT !.playing = ~@]
    ELSE [st EXCEPT !.vis = u.vis]

\* one queued update applied to the state
applyUpdate(st, u) ==
    IF u.kind = "toggle" THEN [st EXCEPT !.playing = ~@]
    ELSE [vis |-> u.vis, playing |-> TRUE]

RECURSIVE applyUpdates(_, _)
applyUpdates(st, us) ==
    IF Len(us) = 0 THEN st ELSE applyUpdates(applyUpdate(st, Head(us)), Tail(us))

\* a cleanup that forgets cancelAnimationFrame
cancelNothing(callbacks, id) == callbacks

cancelAnimationFrame(callbacks, id) == {cb \in callbacks : cb.id # id}

\* requestAnimationFrame's return value: an id no pending callback has and
\* rafRef does not hold (the browser never hands out an id twice)
requestId == CHOOSE n \in 1..(Cardinality(raf) + 2) : n # rafRef /\ \A cb \in raf : cb.id # n

\* the effect's cleanup: the callbacks left pending
cleanedRaf ==
    IF hasCleanup /\ rafRef # 0 THEN cancelAnimationFrame(raf, rafRef) ELSE raf

\* a render of App and VisualizationCanvas with the queued updates, and the
\* layout effect when spec or isPlaying changed: the previous run's cleanup,
\* then the effect body
Render ==
    /\ mounted
    /\ updates # <<>>
    /\ LET st == applyUpdates([vis |-> currentVis, playing |-> isPlaying], updates)
           changed == st.vis.serial # currentVis.serial \/ st.playing # isPlaying
           starts == changed /\ st.vis.spec # Null /\ st.playing
       IN  /\ starts =>
                /\ nLoops < MaxLoops
                /\ clock + specDuration(st.vis.spec) + 2 * MaxStep <= MaxClock
           /\ currentVis' = st.vis
           /\ isPlaying' = st.playing
           /\ updates' = <<>>
           /\ IF starts THEN
                /\ nLoops' = nLoops + 1
                /\ raf' = cleanedRaf
                            \cup {[id |-> requestId, at |-> clock, loop |-> nLoops + 1,
                                   serial |-> st.vis.serial, spec |-> st.vis.spec,
                                   isPlaying |-> st.playing, startTime |-> 0]}
                /\ rafRef' = requestId
                /\ hasCleanup' = TRUE
              ELSE
                /\ nLoops' = nLoops
                /\ raf' = (IF changed THEN cleanedRaf ELSE raf)
                /\ rafRef' = (IF changed /\ hasCleanup THEN 0 ELSE rafRef)
                /\ hasCleanup' = (IF changed THEN FALSE ELSE hasCleanup)
    /\ UNCHANGED <<mounted, clock, canvas, sanVars, srvVars, extVars, cliVars>>

\* the component is removed: the effect's cleanup runs
Unmount ==
    /\ mounted
    /\ mounted' = FALSE
    /\ updates' = <<>>
    /\ raf' = cleanedRaf
    /\ rafRef' = (IF hasCleanup THEN 0 ELSE rafRef)
    /\ hasCleanup' = FALSE
    /\ UNCHANGED <<currentVis, isPlaying, nLoops, clock, canvas, sanVars, srvVars, extVars, cliVars>>

\* a draw that asks for the next frame whatever t is
againAlways(t, dur, playing) == playing

\* if (t < dur && isPlaying)
again(t, dur, playing) == t < dur /\ playing

\* what the canvas shows: the shapes of the last frame drawn
canvasShapes == IF canvas.loop = 0 THEN <<>> ELSE paint(canvas.spec, canvas.t)

\* the browser runs a pending callback: draw(now)
Frame ==
    \E cb \in raf :
        /\ cb.at < clock
        /\ LET now == clock
               startTime == IF cb.startTime = 0 THEN now ELSE cb.startTime
               dur == specDuration(cb.spec)
               t == Min(now - startTime, dur)
           IN  /\ canvas' = [loop |-> cb.loop, serial |-> cb.serial, spec |-> cb.spec,
                             t |-> t, dur |-> dur]
               /\ IF again(t, dur, cb.isPlaying) THEN
                    /\ raf' = (raf \ {cb})
                                \cup {[cb EXCEPT !.id = requestId, !.at = clock,
                                                 !.startTime = startTime]}
                    /\ rafRef' = requestId
                  ELSE
                    /\ raf' = raf \ {cb}
                    /\ rafRef' = rafRef
        /\ UNCHANGED <<currentVis, isPlaying, updates, mounted, hasCleanup, nLoops, clock,
                       sanVars, srvVars, extVars, cliVars>>

\* time passes; a callback requested before the last look at the clock runs
\* before the next one, and once the component is gone with nothing pending
\* the clock is no longer looked at
Tick ==
    /\ mounted \/ raf # {}
    /\ \A cb \in raf : cb.at = clock
    /\ \E d \in FrameSteps :
        /\ clock + d <= MaxClock
        /\ clock' = clock + d
    /\ UNCHANGED <<currentVis, isPlaying, updates, mounted, hasCleanup, nLoops, raf, rafRef,
                   canvas, sanVars, srvVars, extVars, cliVars>>

PlayInit ==
    /\ ans = Undef
    /\ SanIdle
    /\ PlayIdle
    /\ mode = Undef
    /\ SrvIdle
    /\ ExtIdle
    /\ CliIdle

PlayNext == AnswerCreated \/ TogglePlay \/ Render \/ Unmount \/ Frame \/ Tick

SpecPlay == PlayInit /\ [][PlayNext]_vars

\* frames keep being delivered and the clock keeps advancing
FairPlay == SpecPlay /\ WF_vars(Frame) /\ WF_vars(Tick)

----------------------------------------------------------------------------
(* Properties of the playback loop *)

\* C5: after a pause and a resume on one spec, the first sample drawn has an
\* animation time no smaller than the last sample drawn before the pause.
ResumeKeepsTime ==
    [][(canvas'.loop # canvas.loop /\ canvas'.serial = canvas.serial)
            => canvas'.t >= canvas.t]_vars

LastUpdate == updates[Len(updates)]

\* C6: the first sample drawn for a newly delivered visualization has t = 0
\* and is drawn while playing, and the render of an answer_created event
\* leaves the player playing the new visualization with its first frame
\* requested.
SwitchStartsAtZero ==
    /\ [][canvas'.serial # canvas.serial
            => (canvas'.t = 0 /\ isPlaying' /\ canvas'.serial = currentVis'.serial)]_vars
    /\ [][(updates # <<>> /\ updates' = <<>> /\ mounted' /\ LastUpdate.kind = "answer")
            => /\ isPlaying'
               /\ currentVis' = LastUpdate.vis
               /\ \E cb \in raf' : cb.serial = currentVis'.serial /\ cb.startTime = 0]_vars

\* C6 witness: the second visualization delivered has been drawn at t = 0 by
\* the second loop, the first loop having played the first one.
SwitchStartsAtZeroWitness ==
    canvas.serial = 2 /\ canvas.loop = 2 /\ canvas.t = 0 /\ isPlaying

\* C7: at most one sample callback is pending, and a pending callback belongs
\* to the loop of the visualization shown, which is mounted and playing: no
\* callback of a replaced, paused or torn down loop is left to draw.
OneLoopOnly ==
    /\ Cardinality(raf) <= 1
    /\ \A cb \in raf :
        /\ mounted
        /\ isPlaying
        /\ cb.id = rafRef
        /\ cb.loop = nLoops
        /\ cb.serial = currentVis.serial

\* C7 witness: a second loop has its callback pending after the first loop
\* was replaced in mid-flight (its last sample was its first).
OneLoopOnlyWitness ==
    nLoops = 2 /\ Cardinality(raf) = 1 /\ canvas.loop = 1 /\ canvas.t = 0

Interrupted(l) == nLoops > l \/ ~isPlaying \/ ~mounted

\* C8: a loop draws its first sample at t = 0, then samples at non-decreasing
\* t <= duration, requests no frame once t >= duration was drawn, and, unless
\* paused, replaced or torn down, does draw that final sample and stop.
PlaysToTheEnd ==
    /\ [][canvas'.loop # canvas.loop => canvas'.t = 0]_vars
    /\ [][canvas'.loop = canvas.loop => canvas'.t >= canvas.t]_vars
    /\ [](canvas.t <= canvas.dur)
    /\ [](\A cb \in raf : ~(cb.loop = canvas.loop /\ canvas.t >= canvas.dur))
    /\ \A l \in 1..MaxLoops :
        (\E cb \in raf : cb.loop = l)
            ~> (\/ Interrupted(l)
                \/ /\ canvas.loop = l
                   /\ canvas.t >= canvas.dur
                   /\ \A cb \in raf : cb.loop # l)

\* C8 witness: a loop that was neither paused nor replaced has drawn its
\* final sample, at t = duration, and nothing is pending.
PlaysToTheEndWitness ==
    /\ canvas.loop = nLoops
    /\ canvas.loop > 0
    /\ canvas.t = canvas.dur
    /\ raf = {}
    /\ mounted
    /\ isPlaying
    /\ updates = <<>>

----------------------------------------------------------------------------
(* server/llm.js: extractJSON and askOllama *)

\* A text is a sequence of pieces: "ws" white space, "prose" words without
\* braces or backticks, "fence" three backticks (lang: followed by json),
\* "json" the JSON text of the value v (an object's text starts with { and
\* ends with }), "junk" a text from { to } that is no JSON.
Text(pieces) == [k |-> "text", s |-> pieces]
Ws == [t |-> "ws"]
Prose == [t |-> "prose"]
Fence == [t |-> "fence", lang |-> FALSE]
FenceJson == [t |-> "fence", lang |-> TRUE]
Json(v) == [t |-> "json", v |-> v]
Junk == [t |-> "junk"]

RECURSIVE dropLeadingWs(_)
dropLeadingWs(text) ==
    IF Len(text) > 0 /\ Head(text) = Ws THEN dropLeadingWs(Tail(text)) ELSE text

RECURSIVE dropTrailingWs(_)
dropTrailingWs(text) ==
    IF Len(text) > 0 /\ text[Len(text)] = Ws
        THEN dropTrailingWs(SubSeq(text, 1, Len(text) - 1))
        ELSE text

\* String.prototype.trim on a text
trimText(text) == dropTrailingWs(dropLeadingWs(text))

\* JSON.parse(text): white space around one JSON text is allowed
jsonParse(text) ==
    LET body == trimText(text)
    IN  IF Len(body) = 1 /\ body[1].t = "json" THEN body[1].v ELSE Throw

hasBrace(piece) == piece.t = "junk" \/ (piece.t = "json" /\ piece.v.k = "obj")

\* text.match(/\{[\s\S]*\}$/): from the first { to the end of a text that ends
\* with }, the empty text when there is none
matchBraces(text) ==
    IF Len(text) > 0 /\ hasBrace(text[Len(text)])
        THEN LET first == CHOOSE i \in 1..Len(text) :
                            hasBrace(text[i]) /\ \A j \in 1..(i - 1) : ~hasBrace(text[j])
             IN  SubSeq(text, first, Len(text))
        ELSE <<>>

\* text is a string, given as its pieces
extractJSON(text) ==
    IF text = <<>> THEN Null
    ELSE IF jsonParse(text) # Throw THEN jsonParse(text)
    ELSE LET m == matchBraces(text)
         IN  IF m # <<>> /\ jsonParse(m) # Throw THEN jsonParse(m) ELSE Null

\* raw.replace(/^```json\s*/i, "").replace(/```$/, "")
cleanedText(raw) ==
    LET a == IF Len(raw) > 0 /\ Head(raw) = FenceJson THEN dropLeadingWs(Tail(raw)) ELSE raw
    IN  IF Len(a) > 0 /\ a[Len(a)] = Fence THEN SubSeq(a, 1, Len(a) - 1) ELSE a

\* askOllama once resp.json() has given data: its result, Throw for
\* "Bad JSON from Ollama"
\* let parsed = extractJSON(raw); if (!parsed) parsed = extractJSON(cleaned)
tolerantParse(text) ==
    IF ~Truthy(extractJSON(text)) THEN extractJSON(cleanedText(text)) ELSE extractJSON(text)

ollamaParsed(data) ==
    LET text == IF Truthy(data) /\ Get(data, "response").k = "text"
                    THEN trimText(Get(data, "response").s)
                    ELSE <<>>
    IN  IF ~Truthy(tolerantParse(text)) THEN Throw ELSE tolerantParse(text)

----------------------------------------------------------------------------
(* server/index.js: POST /api/questions, with callLLMService of llm.js *)

MaxNow == 1

Modes == {Undef, Str("mock"), Str("ollama"), Str("hf")}

\* process.env.LLM_MODE || "mock"
llmMode(env) == Or(env, Str("mock"))

\* a promise not settled yet, and whether the upstream is still going to respond
Pending(responds) == [k |-> "pending", responds |-> responds]
Resolved(v) == [k |-> "resolved", v |-> v]
Rejected == [k |-> "rejected"]

\* sanitizeAnswer(mockAnswer(question))
mockFallback(question) ==
    IF mockAnswer(question) = Throw THEN Throw ELSE sanitizeAnswer(mockAnswer(question))

\* the result of askOllama when its awaits settled as upstream: Throw when
\* fetch or resp.json() rejected
askOllama(upstream) ==
    IF upstream.k = "resolved" THEN ollamaParsed(upstream.v) ELSE Throw

\* callLLMService with LLM_MODE = env; upstream is read in ollama mode only
callLLMService(env, question, upstream) ==
    LET first == IF llmMode(env) = Str("ollama")
                     THEN IF askOllama(upstream) = Throw
                              THEN Throw
                              ELSE sanitizeAnswer(askOllama(upstream))
                     ELSE mockFallback(question)
    IN  IF first = Throw THEN mockFallback(question) ELSE first

\* the backends callLLMService calls, in order, with LLM_MODE = env
backendsCalled(env, question, upstream) ==
    IF llmMode(env) = Str("ollama")
        THEN IF askOllama(upstream) = Throw \/ sanitizeAnswer(askOllama(upstream)) = Throw
                 THEN <<"askOllama", "mockAnswer">>
                 ELSE <<"askOllama">>
        ELSE IF mockFallback(question) = Throw
                 THEN <<"mockAnswer", "mockAnswer">>
                 ELSE <<"mockAnswer">>

\* broadcast(event, data), after the calls evs
broadcast(evs, event, data) == Append(evs, [event |-> event, data |-> data])

\* the handler after await callLLMService(question) gave llm, at Date.now() = t;
\* rq, qs and evs are the request, the questions and the broadcasts so far
respond(r, rq, qs, evs, llm, t) ==
    IF llm = Throw
        THEN /\ reqs' = [reqs EXCEPT ![r] = [rq EXCEPT !.pc = "done", !.io = None,
                                                      !.status = 500]]
             /\ questions' = qs
             /\ events' = evs
             /\ UNCHANGED answers
        ELSE LET answerId == "a_" \o ToString(t)
                 aObj == [id |-> answerId, questionId |-> rq.questionId,
                          text |-> Get(llm, "text"),
                          visualization |-> Get(llm, "visualization")]
             IN  /\ answers' = Append(answers, aObj)
                 /\ questions' = [qs EXCEPT ![rq.qIndex].answerId = Str(answerId)]
                 /\ events' = broadcast(evs, "answer_created", aObj)
                 /\ reqs' = [reqs EXCEPT ![r] = [rq EXCEPT !.pc = "done", !.io = None,
                                                          !.status = 200]]

\* the request bodies express.json() hands to the handler
Bodies ==
    {Undef, EmptyObj, Obj([question |-> Str("")]),
     Obj([question |-> Str("Explain the Solar System")]),
     Obj([question |-> Str("Why is the sky blue?"), userId |-> Str("u2")]),
     Obj([question |-> Num(5)])}

GoodAnswer ==
    Obj([text |-> Str("ok"),
         visualization |-> Obj([id |-> Str("vis_llm"), duration |-> Num(3000),
            layers |-> Arr(<<Obj([id |-> Str("sun"), type |-> Str("circle"),
                                  props |-> Obj([x |-> Num(320), y |-> Num(200),
                                                 r |-> Num(30)])])>>)])])

\* what resp.json() can give: { response: "..." } with the model's text, or
\* anything else the upstream sends
OllamaData ==
    {Obj([response |-> Text(<<Json(GoodAnswer)>>)]),
     Obj([response |-> Text(<<Ws, FenceJson, Ws, Json(GoodAnswer), Ws, Fence, Ws>>)]),
     Obj([response |-> Text(<<Prose, Ws, FenceJson, Ws, Json(GoodAnswer), Ws, Fence>>)]),
     Obj([response |-> Text(<<Prose, Ws, Json(GoodAnswer)>>)]),
     Obj([response |-> Text(<<Junk>>)]),
     Obj([error |-> Str("model not found")]),
     Null}

Outcomes == {Resolved(data) : data \in OllamaData} \cup {Rejected}

Questions == {Get(Or(body, EmptyObj), "question") : body \in Bodies}

\* callLLMService on every mode, question and upstream outcome, computed once
llmResults ==
    [env \in Modes, question \in Questions, upstream \in Outcomes |->
        callLLMService(env, question, upstream)]

\* the calls of callLLMService on every mode, question and upstream outcome
llmCalls ==
    [env \in Modes, question \in Questions, upstream \in Outcomes |->
        backendsCalled(env, question, upstream)]

\* the handler that takes every question, whatever it is
questionNeverMissing(question) == FALSE

\* if (!question) return res.status(400)
questionMissing(question) == ~Truthy(question)

\* requests are numbered in the order they arrive
nextRequest(r) == reqs[r].pc = "idle" /\ \A p \in 1..(r - 1) : reqs[p].pc # "idle"

\* app.post("/api/questions"), up to its first await that leaves the handler;
\* d is the time that passes between the handler's two calls of Date.now()
Post(r, body, d) ==
    /\ nextRequest(r)
    /\ dateNow + d <= MaxNow
    /\ LET b == Or(body, EmptyObj)
           userId == IF Get(b, "userId") = Undef THEN Str("u1") ELSE Get(b, "userId")
           question == Get(b, "question")
           questionId == "q_" \o ToString(dateNow)
           qObj == [id |-> questionId, userId |-> userId, question |-> question,
                    answerId |-> Null]
           qs == Append(questions, qObj)
           evs == broadcast(events, "question_created", qObj)
           rq == [reqs[r] EXCEPT !.question = question, !.userId = userId,
                                 !.questionId = questionId, !.qIndex = Len(qs)]
       IN  IF questionMissing(question)
               THEN /\ d = 0
                    /\ reqs' = [reqs EXCEPT ![r].pc = "done", ![r].status = 400]
                    /\ UNCHANGED <<questions, answers, events, dateNow>>
           ELSE IF llmMode(mode) = Str("ollama")
               THEN /\ d = 0
                    /\ reqs' = [reqs EXCEPT ![r] = [rq EXCEPT !.pc = "fetch", !.io = Pending(TRUE),
                                                             !.calls = <<"askOllama">>]]
                    /\ questions' = qs
                    /\ events' = evs
                    /\ UNCHANGED <<answers, dateNow>>
           ELSE /\ respond(r, [rq EXCEPT !.calls = llmCalls[mode, question, Rejected]], qs, evs,
                           llmResults[mode, question, Rejected], dateNow + d)
                /\ dateNow' = dateNow + d
    /\ UNCHANGED <<mode, sanVars, playVars, extVars, cliVars>>

\* the upstream stops responding to the call request r awaits
Stall(r) ==
    /\ reqs[r].io = Pending(TRUE)
    /\ reqs' = [reqs EXCEPT ![r].io = Pending(FALSE)]
    /\ UNCHANGED <<mode, questions, answers, events, dateNow, sanVars, playVars, extVars, cliVars>>

\* the promise request r awaits settles, fetch(...) first and resp.json() next,
\* and the handler resumes in the same turn of the event loop
Settle(r, outcome, d) ==
    /\ reqs[r].io = Pending(TRUE)
    /\ dateNow + d <= MaxNow
    /\ \/ /\ reqs[r].pc = "fetch"
          /\ outcome = Resolved(Undef)
          /\ d = 0
          /\ reqs' = [reqs EXCEPT ![r].pc = "json"]
          /\ UNCHANGED <<questions, answers, events, dateNow>>
       \/ /\ \/ reqs[r].pc = "fetch" /\ outcome = Rejected
             \/ reqs[r].pc = "json" /\ outcome \in Outcomes
          /\ respond(r, [reqs[r] EXCEPT !.calls = llmCalls[mode, reqs[r].question, outcome]],
                     questions, events,
                     llmResults[mode, reqs[r].question, outcome], dateNow + d)
          /\ dateNow' = dateNow + d
    /\ UNCHANGED <<mode, sanVars, playVars, extVars, cliVars>>

\* time passes
SrvTick ==
    /\ dateNow < MaxNow
    /\ dateNow' = dateNow + 1
    /\ UNCHANGED <<mode, questions, answers, events, reqs, sanVars, playVars, extVars, cliVars>>

SrvInit ==
    /\ ans = Undef
    /\ SanIdle
    /\ PlayIdle
    /\ mode \in Modes
    /\ SrvIdle
    /\ ExtIdle
    /\ CliIdle

SrvNext ==
    \/ \E r \in 1..MaxRequests, body \in Bodies, d \in {0, 1} : Post(r, body, d)
    \/ \E r \in 1..MaxRequests : Stall(r)
    \/ \E r \in 1..MaxRequests, outcome \in Outcomes \cup {Resolved(Undef)}, d \in {0, 1} :
            Settle(r, outcome, d)
    \/ SrvTick

SpecServer == SrvInit /\ [][SrvNext]_vars

\* an upstream that has not stopped responding does respond
Responds(r) == \E outcome \in Outcomes \cup {Resolved(Undef)}, d \in {0, 1} : Settle(r, outcome, d)

FairServer == SpecServer /\ \A r \in 1..MaxRequests : WF_vars(Responds(r))

----------------------------------------------------------------------------
(* The server's answers *)

\* request r was accepted with a non-empty question
Accepted(r) == reqs[r].questionId # "" /\ reqs[r].question.k = "str" /\ reqs[r].question.s # ""

Answered(r) ==
    /\ reqs[r].pc = "done"
    /\ reqs[r].status = 200
    /\ \E i \in 1..Len(answers) :
            /\ answers[i].questionId = reqs[r].questionId
            /\ answers[i].text.k = "str"
            /\ answers[i].visualization.k = "obj"
            /\ \E e \in 1..Len(events) :
                    events[e] = [event |-> "answer_created", data |-> answers[i]]

\* C4: every accepted question eventually has a stored answer and an
\* answer_created broadcast with a text and a visualization, whatever the
\* upstream does; no request stays pending forever
EveryQuestionAnswered == \A r \in 1..MaxRequests : Accepted(r) ~> Answered(r)

\* what does hold: a request whose upstream keeps responding is answered
RespondingIsAnswered ==
    \A r \in 1..MaxRequests : Accepted(r) ~> (Answered(r) \/ reqs[r].io = Pending(FALSE))

----------------------------------------------------------------------------
(* Properties of the sanitized numbers *)

InVis == Or(OptGet(ans, "visualization"), EmptyObj)
OutFps == Get(OutVis, "fps")

IsInteger(v) == v.k = "num" /\ ~isHalf(v)

\* v is a number within lo..hi, bounds included
InRange(v, lo, hi) == v.k = "num" /\ lo <= v.n /\ (IF isHalf(v) THEN v.n < hi ELSE v.n <= hi)

\* v is absent, or is neither a number nor a string that reads as one
NonNumeric(v) ==
    \/ v.k \in {"undef", "null", "bool", "arr", "obj"}
    \/ v.k = "str" /\ ~StrToNum(v.s).finite

\* C11: the returned duration is an integer within 1000..10000 and the
\* returned fps an integer within 1..60; a missing or non-numeric duration
\* gives 5000 and a missing or non-numeric fps gives 30.
DurationFpsInv ==
    Sanitized =>
        /\ IsInteger(Get(OutVis, "duration"))
        /\ InRange(Get(OutVis, "duration"), 1000, 10000)
        /\ IsInteger(OutFps)
        /\ InRange(OutFps, 1, 60)
        /\ NonNumeric(Get(InVis, "duration")) => Get(OutVis, "duration") = Num(5000)
        /\ NonNumeric(Get(InVis, "fps")) => OutFps = Num(30)

\* the documented range of each numeric field, by layer type
PropRanges(type) ==
    CASE type = "circle" -> [x |-> <<0, 640>>, y |-> <<0, 400>>, r |-> <<1, 120>>]
      [] type = "arrow" ->
            [x |-> <<0, 640>>, y |-> <<0, 400>>, dx |-> <<-640, 640>>, dy |-> <<-400, 400>>]
      [] type = "lottie" ->
            [x |-> <<0, 640>>, y |-> <<0, 400>>, width |-> <<40, 640>>, height |-> <<40, 400>>]

OrbitRanges ==
    [centerX |-> <<0, 640>>, centerY |-> <<0, 400>>, radius |-> <<10, 250>>,
     duration |-> <<500, 10000>>]

FieldsInRange(obj, ranges) ==
    \A key \in DOMAIN ranges : InRange(Get(obj, key), ranges[key][1], ranges[key][2])

LayerInRange(layer) ==
    /\ Get(layer, "type").k = "str"
    /\ Get(layer, "type").s \in {"circle", "arrow", "lottie"}
    /\ FieldsInRange(Get(layer, "props"), PropRanges(Get(layer, "type").s))
    /\ \A j \in 1..Len(AnimationsOf(layer)) :
            Get(AnimationsOf(layer)[j], "property") = Str("orbit")
                => FieldsInRange(AnimationsOf(layer)[j], OrbitRanges)

\* every input layer is of a recognized type, so that the returned layers are
\* the input layers in their order
AllRecognized ==
    /\ InputLayers.k = "arr"
    /\ Len(InputLayers.a) > 0
    /\ \A i \in 1..Len(InputLayers.a) :
            OptGet(InputLayers.a[i], "type") \in {Str("circle"), Str("arrow"), Str("lottie")}

\* a number given for a field comes back as the nearest value of its range
NearestBound(inObj, outObj, ranges) ==
    \A key \in DOMAIN ranges :
        IsInteger(OptGet(inObj, key)) =>
            Get(outObj, key) = Num(Max(ranges[key][1], Min(ranges[key][2], OptGet(inObj, key).n)))

\* C12: every numeric field of every returned layer, and of every orbit, lies
\* in its documented range, and a number given out of range is mapped to the
\* nearest bound.
FieldsClamped ==
    Sanitized =>
        /\ \A i \in 1..Len(OutLayers) : LayerInRange(OutLayers[i])
        /\ AllRecognized =>
                \A i \in 1..Len(OutLayers) :
                    NearestBound(OptGet(InputLayers.a[i], "props"), Get(OutLayers[i], "props"),
                                 PropRanges(Get(OutLayers[i], "type").s))

\* C12 witness: a circle given x = 9999 and r = -5 came back with x = 640 and
\* r = 1.
FieldsClampedWitness ==
    /\ Sanitized
    /\ AllRecognized
    /\ \E i \in 1..Len(OutLayers) :
            /\ OptGet(OptGet(InputLayers.a[i], "props"), "x") = Num(9999)
            /\ OptGet(OptGet(InputLayers.a[i], "props"), "r") = Num(-5)
            /\ Get(Get(OutLayers[i], "props"), "x") = Num(640)
            /\ Get(Get(OutLayers[i], "props"), "r") = Num(1)

----------------------------------------------------------------------------
(* Properties of the returned layer sequence *)

Recognized(l) == OptGet(l, "type") \in {Str("circle"), Str("arrow"), Str("lottie")}

\* the entries of the input's layers that are of a recognized type, in order
KeptInput == IF InputLayers.k = "arr" THEN SelectSeq(InputLayers.a, Recognized) ELSE <<>>

\* two layers: the circle "ball" with one animation of x from 120 to 520, then
\* the arrow "arrow" with none
IsDefaultScene(layers) ==
    /\ Len(layers) = 2
    /\ Get(layers[1], "id") = Str("ball")
    /\ Get(layers[1], "type") = Str("circle")
    /\ Get(layers[1], "props")
            = Obj([x |-> Num(120), y |-> Num(220), r |-> Num(18), fill |-> Str("#3498db")])
    /\ Len(AnimationsOf(layers[1])) = 1
    /\ Get(AnimationsOf(layers[1])[1], "property") = Str("x")
    /\ Get(AnimationsOf(layers[1])[1], "from") = Num(120)
    /\ Get(AnimationsOf(layers[1])[1], "to") = Num(520)
    /\ Get(AnimationsOf(layers[1])[1], "start") = Num(0)
    /\ layers[2] = Obj([id |-> Str("arrow"), type |-> Str("arrow"),
                        props |-> Obj([x |-> Num(90), y |-> Num(220), dx |-> Num(40),
                                       dy |-> Num(0), color |-> Str("#e74c3c")]),
                        animations |-> Arr(<<>>)])

\* C13: the returned layers are never empty: they are the input entries of a
\* recognized type, in order, and the default scene of an animated circle and
\* a static arrow exactly when there is no such entry.
LayersNeverEmpty ==
    Sanitized =>
        /\ Len(OutLayers) > 0
        /\ IF Len(KeptInput) = 0
               THEN IsDefaultScene(OutLayers)
               ELSE /\ Len(OutLayers) = Len(KeptInput)
                    /\ \A i \in 1..Len(KeptInput) :
                            Get(OutLayers[i], "type") = OptGet(KeptInput[i], "type")

\* C13 witness: a layer list holding only entries of no recognized type came
\* back as the default scene.
LayersNeverEmptyWitness ==
    /\ Sanitized
    /\ InputLayers.k = "arr"
    /\ Len(InputLayers.a) > 0
    /\ Len(KeptInput) = 0
    /\ Len(OutLayers) = 2

----------------------------------------------------------------------------
(* Properties of the evaluated frame *)

Drawn == drawnAt >= 0

\* the shape painted for the layer at index i (0-based)
ShapeOf(i) == CHOOSE sh \in {frame[j] : j \in 1..Len(frame)} : sh.layer = i

IsCircle(layer) == Get(layer, "type") = Str("circle")

Abs(n) == IF n < 0 THEN -n ELSE n

RECURSIVE GCD(_, _)
GCD(a, b) == IF b = 0 THEN a ELSE GCD(b, a % b)

\* the painted coordinate c is the number num / den, den > 0: the two
\* fractions are equal in lowest terms
IsRatio(c, num, den) ==
    /\ c.fn = "none"
    /\ c.n \div GCD(Abs(c.n), c.d) = num \div GCD(Abs(num), den)
    /\ c.d \div GCD(Abs(c.n), c.d) = den \div GCD(Abs(num), den)

\* the value of a linear animation at time t as the claim gives it, against
\* the painted coordinate c
LinearValueOk(c, a, t) ==
    LET from == Get(a, "from").n
        to == Get(a, "to").n
        start == Get(a, "start").n
        end == Get(a, "end").n
    IN  /\ t <= start => IsRatio(c, from, 1)
        /\ t >= end => IsRatio(c, to, 1)
        /\ (start < t /\ t < end) =>
                IsRatio(c, from * (end - start) + (to - from) * (t - start), end - start)

\* the coordinate of shape sh a linear animation a targets
Targeted(sh, a) ==
    CASE Get(a, "property") = Str("x") -> sh.x
      [] Get(a, "property") = Str("y") -> sh.y
      [] Get(a, "property") = Str("r") -> sh.r

SingleLinear(layer) ==
    /\ IsCircle(layer)
    /\ Len(AnimationsOf(layer)) = 1
    /\ Get(AnimationsOf(layer)[1], "property") # Str("orbit")

\* C14: for a circle with a single linear animation the painted value of the
\* targeted property is from up to start, to from end on, and the linear
\* interpolation in between.
LinearInterpolation ==
    Drawn =>
        \A i \in 1..Len(OutLayers) :
            SingleLinear(OutLayers[i]) =>
                LinearValueOk(Targeted(ShapeOf(i - 1), AnimationsOf(OutLayers[i])[1]),
                              AnimationsOf(OutLayers[i])[1], drawnAt)

\* the shape painted at t = 0 for the layer at index i (0-based)
ShapeAtZero(i) ==
    CHOOSE sh \in {paint(OutVis, 0)[j] : j \in 1..Len(paint(OutVis, 0))} : sh.layer = i

LastAnimation(layer) == AnimationsOf(layer)[Len(AnimationsOf(layer))]

\* a circle whose position is the one its orbit gives it
Orbiting(layer) ==
    /\ IsCircle(layer)
    /\ Len(AnimationsOf(layer)) > 0
    /\ Get(LastAnimation(layer), "property") = Str("orbit")

Period(layer) == Get(LastAnimation(layer), "duration").n

\* C15: a circle with an orbit of period P is painted at the same (x, y) when
\* the frame is evaluated at t = P as at t = 0, whatever the duration and the
\* period of the sanitized visualization.
OrbitPeriodic ==
    Drawn =>
        \A i \in 1..Len(OutLayers) :
            (Orbiting(OutLayers[i]) /\ drawnAt = Min(Period(OutLayers[i]), OutDuration)) =>
                /\ ShapeOf(i - 1).x = ShapeAtZero(i - 1).x
                /\ ShapeOf(i - 1).y = ShapeAtZero(i - 1).y

\* what does hold of C14 and C15: the interpolation of an animation with
\* start < end, and the orbit whose period is within the duration
LinearInterpolationProper ==
    Drawn =>
        \A i \in 1..Len(OutLayers) :
            (/\ SingleLinear(OutLayers[i])
             /\ Get(AnimationsOf(OutLayers[i])[1], "start").n
                    < Get(AnimationsOf(OutLayers[i])[1], "end").n) =>
                LinearValueOk(Targeted(ShapeOf(i - 1), AnimationsOf(OutLayers[i])[1]),
                              AnimationsOf(OutLayers[i])[1], drawnAt)

OrbitPeriodicWithinDuration ==
    Drawn =>
        \A i \in 1..Len(OutLayers) :
            (/\ Orbiting(OutLayers[i])
             /\ Period(OutLayers[i]) <= OutDuration
             /\ drawnAt = Period(OutLayers[i])) =>
                /\ ShapeOf(i - 1).x = ShapeAtZero(i - 1).x
                /\ ShapeOf(i - 1).y = ShapeAtZero(i - 1).y

\* animation a writes property q
Targets(a, q) ==
    \/ Get(a, "property") = Str(q)
    \/ Get(a, "property") = Str("orbit") /\ q \in {"x", "y"}

\* the circle's x, y and r before any animation
BaseState(layer) ==
    [q \in {"x", "y", "r"} |-> Plain(Get(Get(layer, "props"), q).n)]

\* the value of q the last animation of the list that targets q computes from
\* the base props, the base prop itself when none targets q
LastWrite(layer, q, t, dur) ==
    LET as == AnimationsOf(layer)
        writers == {j \in 1..Len(as) : Targets(as[j], q)}
        last == CHOOSE j \in writers : \A w \in writers : w <= j
    IN  IF writers = {} THEN BaseState(layer)[q]
        ELSE applyAnimation(BaseState(layer), as[last], t, dur)[q]

\* C18: the painted x, y and r of a circle are each the value computed by the
\* last animation of its list that targets the property, unblended, and the
\* base prop when no animation targets it.
LastWriteWins ==
    Drawn =>
        \A i \in 1..Len(OutLayers) :
            IsCircle(OutLayers[i]) =>
                /\ ShapeOf(i - 1).x = LastWrite(OutLayers[i], "x", drawnAt, OutDuration)
                /\ ShapeOf(i - 1).y = LastWrite(OutLayers[i], "y", drawnAt, OutDuration)
                /\ ShapeOf(i - 1).r = LastWrite(OutLayers[i], "r", drawnAt, OutDuration)

\* C18 witness: a circle whose x is written by three animations, a linear one
\* between two orbits, has been painted, y being written by the orbits only
\* and r by none.
LastWriteWinsWitness ==
    /\ Drawn
    /\ drawnAt > 0
    /\ \E i \in 1..Len(OutLayers) :
            /\ IsCircle(OutLayers[i])
            /\ Len(AnimationsOf(OutLayers[i])) = 3
            /\ \A j \in 1..3 : Targets(AnimationsOf(OutLayers[i])[j], "x")
            /\ ~Targets(AnimationsOf(OutLayers[i])[2], "y")
            /\ ShapeOf(i - 1).x.fn = "cos"
            /\ ShapeOf(i - 1).x.pd = 500

----------------------------------------------------------------------------
(* server/llm.js: the extraction run on the texts a model can respond with *)

MaxPieces == 5

Pieces == {Ws, Prose, Fence, FenceJson, Json(GoodAnswer), Junk}

\* data.response.trim() of every text of up to MaxPieces pieces
ResponseTexts == {trimText(text) : text \in SeqsUpTo(Pieces, MaxPieces)}

ExtInit ==
    /\ ans = Undef
    /\ SanIdle
    /\ PlayIdle
    /\ mode = Str("ollama")
    /\ SrvIdle
    /\ rawText \in ResponseTexts
    /\ extracted = NotYet
    /\ CliIdle

\* askOllama from const raw = ... to if (!parsed): both attempts of extractJSON
Extract ==
    /\ extracted = NotYet
    /\ extracted' = tolerantParse(rawText)
    /\ UNCHANGED <<rawText, sanVars, playVars, srvVars, cliVars>>

\* callLLMService: the extracted value, when there is one, goes to the sanitizer
SanitizeExtracted ==
    /\ extracted # NotYet
    /\ Truthy(extracted)
    /\ out = NotYet
    /\ out' = sanitizeAnswer(extracted)
    /\ UNCHANGED <<ans, out2, drawnAt, frame, playVars, srvVars, extVars, cliVars>>

ExtNext == Extract \/ SanitizeExtracted

SpecExtract == ExtInit /\ [][ExtNext]_vars

\* the text without its white space
Squeezed(text) == SelectSeq(text, LAMBDA piece : piece # Ws)

\* prose, an opening fence with or without the language tag, the object, the
\* closing fence
FencedAfterProse(text) ==
    \E open \in {Fence, FenceJson} : Squeezed(text) = <<Prose, open, Json(GoodAnswer), Fence>>

\* C16: from a response holding the object in a code fence after leading
\* prose the extraction returns the object, which then goes to the sanitizer,
\* and the extraction never throws.
ExtractionRecovers ==
    extracted # NotYet =>
        /\ extracted # Throw
        /\ FencedAfterProse(rawText) => extracted = GoodAnswer

\* what does hold: the object alone, after prose, or in a fence opened with
\* the json tag at the very start of the text is extracted
ExtractionRecoversPlain ==
    extracted # NotYet =>
        /\ extracted # Throw
        /\ Squeezed(rawText) \in {<<Json(GoodAnswer)>>, <<Prose, Json(GoodAnswer)>>,
                                  <<FenceJson, Json(GoodAnswer), Fence>>}
                => extracted = GoodAnswer

----------------------------------------------------------------------------
(* The backend that answers *)

\* the backend LLM_MODE = env selects
selectedBackend(env) ==
    IF llmMode(env) = Str("hf") THEN "askHF"
    ELSE IF llmMode(env) = Str("ollama") THEN "askOllama"
    ELSE "mockAnswer"

\* request r has called callLLMService
Asked(r) == reqs[r].calls # <<>>

\* C17: the backend LLM_MODE selects is the one callLLMService calls first,
\* askHF for hf, askOllama for ollama, the mock for mock or unset; the mock is
\* otherwise called only after the selected backend
BackendSelected ==
    \A r \in 1..MaxRequests :
        Asked(r) =>
            /\ reqs[r].calls[1] = selectedBackend(mode)
            /\ \A i \in 1..Len(reqs[r].calls) :
                    reqs[r].calls[i] = "mockAnswer" /\ selectedBackend(mode) # "mockAnswer" => i > 1

\* what does hold: ollama and mock (or unset) are called as selected, and in
\* ollama mode the mock answers only when askOllama gave no object
BackendSelectedButHF ==
    \A r \in 1..MaxRequests :
        Asked(r) /\ llmMode(mode) # Str("hf") =>
            /\ reqs[r].calls[1] = selectedBackend(mode)
            /\ llmMode(mode) = Str("ollama") /\ reqs[r].status = 200 =>
                    \E i \in 1..Len(answers) :
                        /\ answers[i].questionId = reqs[r].questionId
                        /\ (Len(reqs[r].calls) = 1) = (answers[i].text = Str("ok"))

----------------------------------------------------------------------------
(* Ids of questions and answers *)

\* app.get("/api/answers/:id"): the status and the body of the response
getAnswer(id) ==
    LET found == {i \in 1..Len(answers) : answers[i].id = id}
    IN  IF found = {}
            THEN [status |-> 404, body |-> Obj([error |-> Str("not found")])]
            ELSE [status |-> 200,
                  body |-> answers[CHOOSE i \in found : \A j \in found : i <= j]]

\* C19: whatever the order of the requests and the time between them, two
\* accepted questions have different ids, two stored answers have different
\* ids, and GET /api/answers/:id gives the answer that was created with that id
IdsDistinct ==
    /\ \A i, j \in 1..Len(questions) : i # j => questions[i].id # questions[j].id
    /\ \A i, j \in 1..Len(answers) : i # j => answers[i].id # answers[j].id
    /\ \A i \in 1..Len(answers) : getAnswer(answers[i].id).body = answers[i]

\* what does hold: the id of an answer that shares it with no other answer
\* gives that answer, and an id shared by several gives the first of them
AnswerOfUnsharedId ==
    \A i \in 1..Len(answers) :
        /\ (\A j \in 1..Len(answers) : j # i => answers[j].id # answers[i].id)
                => getAnswer(answers[i].id) = [status |-> 200, body |-> answers[i]]
        /\ \E j \in 1..i : getAnswer(answers[i].id) = [status |-> 200, body |-> answers[j]]

----------------------------------------------------------------------------
(* Order and consistency of what the server stores and broadcasts *)

\* the broadcasts of event for the question with id q
Broadcasts(event, q) ==
    {e \in 1..Len(events) :
        /\ events[e].event = event
        /\ (IF event = "question_created" THEN events[e].data.id ELSE events[e].data.questionId) = q}

\* every answer_created follows a question_created of its question
CreatedInOrder ==
    \A e \in 1..Len(events) :
        events[e].event = "answer_created" =>
            \E f \in 1..(e - 1) : f \in Broadcasts("question_created", events[e].data.questionId)

\* the stored answers for the question with id q
AnswersOf(q) == {i \in 1..Len(answers) : answers[i].questionId = q}

\* every stored answer belongs to a stored question that names it
AnswersLinked ==
    \A i \in 1..Len(answers) :
        \E k \in 1..Len(questions) :
            /\ questions[k].id = answers[i].questionId
            /\ questions[k].answerId = Str(answers[i].id)

\* C20: whatever the order of the requests, question_created is broadcast
\* before the answer_created that carries its questionId, no question has more
\* than one answer, and every stored answer's questionId is the id of a stored
\* question whose answerId is that answer's id
OrderedAndLinked ==
    /\ CreatedInOrder
    /\ \A k \in 1..Len(questions) : Cardinality(AnswersOf(questions[k].id)) <= 1
    /\ AnswersLinked

\* what does hold: the order of the broadcasts, the link from every answer to
\* its question, one answer at most for every request, and one answer at most
\* for a question whose id no other question has
OrderedAndLinkedPerRequest ==
    /\ CreatedInOrder
    /\ AnswersLinked
    /\ Len(answers) = Cardinality({r \in 1..MaxRequests : reqs[r].status = 200})
    /\ Len(answers) = Cardinality({e \in 1..Len(events) : events[e].event = "answer_created"})
    /\ \A k \in 1..Len(questions) :
            (\A m \in 1..Len(questions) : m # k => questions[m].id # questions[k].id)
                => Cardinality(AnswersOf(questions[k].id)) <= 1

----------------------------------------------------------------------------
(* Requests without a question *)

\* the body is missing, or its question is missing or empty
HasNoQuestion(body) ==
    \/ body = Undef
    \/ OptGet(body, "question") = Undef
    \/ OptGet(body, "question") = Str("")

\* C21: a POST /api/questions whose body has no question gets status 400 and
\* changes nothing on the server: no question and no answer is stored, nothing
\* is broadcast and callLLMService is not called (a step of Post is a step
\* that takes a request out of idle)
NoQuestionIsRefused ==
    [][\A r \in 1..MaxRequests :
            reqs[r].pc = "idle" /\ reqs'[r].pc # "idle" =>
                \A body \in Bodies, d \in {0, 1} :
                    HasNoQuestion(body) /\ Post(r, body, d) =>
                        /\ reqs'[r].pc = "done"
                        /\ reqs'[r].status = 400
                        /\ reqs'[r].calls = <<>>
                        /\ \A p \in 1..MaxRequests : p # r => reqs'[p] = reqs[p]
                        /\ UNCHANGED <<questions, answers, events, dateNow, mode>>]_vars

\* a request was refused after another was accepted and answered, and what
\* the server stores is what the accepted one left
NoQuestionIsRefusedWitness ==
    /\ reqs[1].status = 200
    /\ reqs[2].status = 400
    /\ reqs[2].calls = <<>>
    /\ Len(questions) = 1
    /\ Len(answers) = 1
    /\ Len(events) = 2

----------------------------------------------------------------------------
(* client/src/App.tsx: the question list, loaded on mount and fed by the   *)
(* event stream, against the server of server/index.js                     *)

\* the fields of the stored objects that are JavaScript strings here
PlainFields == {"id", "questionId"}

\* JSON.parse(JSON.stringify(data)) of a stored object: a property whose value
\* is undefined is left out
jsonCopy(data) ==
    [f \in {g \in DOMAIN data : g \in PlainFields \/ data[g] # Undef} |-> data[f]]

\* res.json(questions)
jsonCopies(list) == [i \in 1..Len(list) |-> jsonCopy(list[i])]

\* the App mounts: both effects run, fetch(".../api/questions") is sent and
\* new EventSource(".../api/stream") starts to connect
Mount ==
    /\ load.pc = "idle"
    /\ load' = [load EXCEPT !.pc = "sent"]
    /\ sse' = [sse EXCEPT !.pc = "connecting"]
    /\ UNCHANGED <<cQuestions, cAnswers, sanVars, playVars, srvVars, extVars>>

\* app.get("/api/questions"): the server answers with the questions it has now
ServeQuestions ==
    /\ load.pc = "sent"
    /\ load' = [pc |-> "inflight", data |-> jsonCopies(questions)]
    /\ UNCHANGED <<cQuestions, cAnswers, sse, sanVars, playVars, srvVars, extVars>>

\* await r.json() gave data: setQuestions(data)
Loaded ==
    /\ load.pc = "inflight"
    /\ cQuestions' = load.data
    /\ load' = [pc |-> "done", data |-> <<>>]
    /\ UNCHANGED <<cAnswers, sse, sanVars, playVars, srvVars, extVars>>

\* fetch or r.json() rejected: the catch logs and the list stays
LoadFailed ==
    /\ load.pc \in {"sent", "inflight"}
    /\ load' = [pc |-> "failed", data |-> <<>>]
    /\ UNCHANGED <<cQuestions, cAnswers, sse, sanVars, playVars, srvVars, extVars>>

\* app.get("/api/stream"): clients.add(res); the client gets the broadcasts
\* made from now on
ServeStream ==
    /\ sse.pc = "connecting"
    /\ sse' = [pc |-> "open", read |-> Len(events)]
    /\ UNCHANGED <<cQuestions, cAnswers, load, sanVars, playVars, srvVars, extVars>>

\* the question_created listener: setQuestions((prev) => [...prev, q])
onQuestionCreated(q) ==
    /\ cQuestions' = Append(cQuestions, q)
    /\ UNCHANGED <<cAnswers, playVars>>

\* the answer_created listener
onAnswerCreated(a) ==
    /\ cAnswers' = [id \in DOMAIN cAnswers \cup {a.id} |->
                        IF id = a.id THEN a ELSE cAnswers[id]]
    /\ cQuestions' = [i \in 1..Len(cQuestions) |->
                        IF cQuestions[i].id = a.questionId
                            THEN [cQuestions[i] EXCEPT !.answerId = Str(a.id)]
                            ELSE cQuestions[i]]
    /\ currentVis' = [serial |-> currentVis.serial + 1, spec |-> Or(a.visualization, Null)]
    /\ isPlaying' = TRUE
    /\ UNCHANGED <<updates, mounted, hasCleanup, nLoops, raf, rafRef, clock, canvas>>

\* the next broadcast reaches the EventSource and its listener runs
OnEvent ==
    /\ sse.pc = "open"
    /\ sse.read < Len(events)
    /\ sse' = [sse EXCEPT !.read = @ + 1]
    /\ LET e == events[sse.read + 1]
       IN  IF e.event = "question_created"
               THEN onQuestionCreated(jsonCopy(e.data))
               ELSE onAnswerCreated(jsonCopy(e.data))
    /\ UNCHANGED <<load, sanVars, srvVars, extVars>>

\* the server answers from the local mock, so that a POST is handled in one
\* turn of the event loop
CliInit ==
    /\ SrvInit
    /\ mode = Str("mock")

CliNext ==
    \/ \E r \in 1..MaxRequests, body \in Bodies, d \in {0, 1} : Post(r, body, d)
    \/ SrvTick
    \/ Mount
    \/ ServeQuestions
    \/ Loaded
    \/ LoadFailed
    \/ ServeStream
    \/ OnEvent

SpecClient == CliInit /\ [][CliNext]_vars

----------------------------------------------------------------------------
(* The displayed question list *)

\* how many entries of list have the id
CountOf(list, id) == Cardinality({i \in 1..Len(list) : list[i].id = id})

\* the response of GET /api/questions and every broadcast so far have been
\* handled by the client
AllProcessed == load.pc = "done" /\ sse.pc = "open" /\ sse.read = Len(events)

\* C22: in whatever order the response of the initial GET /api/questions and
\* the question_created events are handled, once all are handled the list
\* displayed has every question the server stores exactly once
EveryQuestionOnce ==
    AllProcessed =>
        /\ Len(cQuestions) = Len(questions)
        /\ \A k \in 1..Len(questions) :
                CountOf(cQuestions, questions[k].id) = CountOf(questions, questions[k].id)

\* what does hold: every question displayed is one the server stores, and it
\* is displayed at most once from the loaded list and once from the stream
ShownAreStored ==
    \A i \in 1..Len(cQuestions) :
        /\ CountOf(questions, cQuestions[i].id) >= 1
        /\ CountOf(cQuestions, cQuestions[i].id) <= 2 * CountOf(questions, cQuestions[i].id)

====
